---- MODULE Spec2Model ----
(***************************************************************************)
(* CallTraceStorage (src/src/callTraceStorage.cpp): a chain of             *)
(* open-addressed hash tables keyed by the 64-bit hash of a call trace.    *)
(*                                                                         *)
(* put() is lock-free and runs on several threads at once.  Every access   *)
(* of put() to shared memory is one step of the model: the load of         *)
(* _current_table, the read of keys[slot] in the while condition, the      *)
(* second read of keys[slot] in the if, the key CAS, the atomic size       *)
(* increment, the table allocation with the CAS of _current_table, each    *)
(* read findCallTrace makes of the previous table (keys[slot] in its while *)
(* condition, keys[slot] again in its if, values[slot]), the arena         *)
(* allocation of storeCallTrace, and the plain store of values[slot].      *)
(* keys[] is a plain (non-volatile, non-atomic) array read while other     *)
(* threads CAS it, so the two reads of keys[slot] in one loop iteration,   *)
(* in put and in findCallTrace, may return different values; the model     *)
(* lets each read see the memory as it is at that step.                    *)
(*                                                                         *)
(* clear() and collect() require that no put() is running; clear is an     *)
(* action enabled when every thread is idle, collect is a read-only walk   *)
(* of the chain and is the operator collect(map).                          *)
(*                                                                         *)
(* The constructor stores what LongHashTable::allocate returns without     *)
(* testing it, so a store whose first allocation failed exists with        *)
(* _current_table = NULL: collect finds no table and emits nothing, put    *)
(* and clear dereference the NULL pointer and the process faults           *)
(* (life = "crashed").  The destructor frees every table of the chain and  *)
(* leaves _current_table = NULL; it ends the object (life = "destroyed").  *)
(*                                                                         *)
(* Scaling.  The tables of the program have 65536, 131072, ... slots; the  *)
(* model keeps the code's arithmetic (power-of-two capacities, doubling,   *)
(* the 3/4 threshold, the ID formula) with INITIAL_CAPACITY scaled down.   *)
(* calcHash (MurmurHash64A) is not evaluated: put's input is the hash of   *)
(* the trace, and two traces are the same trace iff their hashes are       *)
(* equal, which is how the store itself identifies traces.  Hash 0 is an   *)
(* input: calcHash(0, frames) = 0 (len = 0, h = len * M = 0, and the       *)
(* final mix maps 0 to 0).                                                 *)
(***************************************************************************)
EXTENDS Integers, Sequences, FiniteSets, TLC

\* ---------------------------------------------------------------- bounds
InitialCapacityLog2 == 1   \* INITIAL_CAPACITY = 2^InitialCapacityLog2
NumThreads == 2            \* threads calling put
MaxHash == 3               \* hashes are 0..MaxHash
MaxTables == 3             \* the page allocator fails once this many tables exist
MaxPuts == 5               \* put calls between two clears
MaxFaults == 1             \* allocations that fail between two clears
MaxOverlaps == 2           \* put calls begun while another put is running, between two clears

\* ------------------------------------------------------------- constants
INITIAL_CAPACITY == 2^InitialCapacityLog2
NULL == 0

Threads == 1..NumThreads
Hashes == 0..MaxHash

VARIABLES
    tables,          \* the LongHashTable objects allocated, by address 1..Len
    current_table,   \* CallTraceStorage::_current_table (an address)
    arena,           \* _allocator: the CallTraces stored; a CallTrace* is an index, NULL = 0
    pc,              \* per thread: where it is in put
    hash,            \* put's local hash
    table,           \* put's local table
    slot,            \* put's local slot
    step,            \* put's local step
    trace,           \* put's local trace (line 210)
    fslot,           \* findCallTrace's local slot
    fstep,           \* findCallTrace's local step
    \* history variables: they record what happened and guard nothing
    \* except the bounds MaxPuts, MaxFaults and MaxOverlaps
    visits,          \* per thread: evaluations of the while condition at the current slot
    nalloc,          \* per thread: storeCallTrace calls of the current put
    ntab,            \* per thread: LongHashTable::allocate calls of the current put
    novel,           \* per thread: the hash was in no table when current_table was loaded
    gfail,           \* per thread: the current put's table allocation failed
    heldPrev,        \* per thread: when the current put claimed its slot, the
                     \* previous table held its hash with a non-null value
    callno,          \* per thread: the current put is the n-th put of its hash
    overlap,         \* per thread: the current put began while another put was running
    hist,            \* the put calls that returned since the last clear
    clearedLen,      \* chain length the last clear found; 0 once a put has begun
    life             \* "live"; "crashed" after a read through a null pointer;
                     \* "destroyed" after the destructor

vars == <<tables, current_table, arena, pc, hash, table, slot, step, trace,
          fslot, fstep, visits, nalloc, ntab, novel, gfail, heldPrev, callno,
          overlap, hist, clearedLen, life>>

locals == <<hash, table, slot, step, trace, fslot, fstep>>
store == <<tables, current_table, arena>>

\* ------------------------------------------------------------ arithmetic
\* a & b on naturals
RECURSIVE BitAnd(_, _)
BitAnd(a, b) ==
    IF a = 0 \/ b = 0 THEN 0
    ELSE (a % 2) * (b % 2) + 2 * BitAnd(a \div 2, b \div 2)

\* hash & (capacity - 1)   (lines 170, 192)
FirstSlot(h, capacity) == BitAnd(h, capacity - 1)

\* (slot + step) & (capacity - 1), step already incremented   (lines 180, 223)
NextSlot(s, st, capacity) == BitAnd(s + st, capacity - 1)

\* capacity * 3 / 4   (line 202)
Threshold(capacity) == (capacity * 3) \div 4

\* table->incSize() == capacity * 3 / 4, on the incremented size   (line 202)
AtThreshold_Beyond(size, capacity) == size >= Threshold(capacity)
AtThreshold(size, capacity) == size = Threshold(capacity)

\* ++step >= capacity, on the incremented step   (lines 177, 218)
Overflow_Late(st, capacity) == st > capacity
Overflow(st, capacity) == st >= capacity

\* capacity - (INITIAL_CAPACITY - 1) + slot   (lines 116, 226)
IdFor_SlotOnly(capacity, s) == s + 1
IdFor(capacity, s) == capacity - (INITIAL_CAPACITY - 1) + s

\* --------------------------------------------------------- LongHashTable
ZeroArray(capacity) == [i \in 0..(capacity - 1) |-> 0]

\* LongHashTable::allocate when OS::safeAlloc succeeds: zero-filled pages
allocate_NoPrev(prev, capacity) ==
    [prev |-> NULL, capacity |-> capacity, size |-> 0,
     keys |-> ZeroArray(capacity), values |-> ZeroArray(capacity)]
allocate(prev, capacity) ==
    [prev |-> prev, capacity |-> capacity, size |-> 0,
     keys |-> ZeroArray(capacity), values |-> ZeroArray(capacity)]

\* LongHashTable::clear
clearTable_KeepSize(tb) ==
    [tb EXCEPT !.keys = ZeroArray(tb.capacity),
               !.values = ZeroArray(tb.capacity)]
clearTable(tb) ==
    [tb EXCEPT !.keys = ZeroArray(tb.capacity),
               !.values = ZeroArray(tb.capacity),
               !.size = 0]

\* ----------------------------------------------------------------- collect
EmptyMap == [k \in {} |-> NULL]

\* map[k] = v
MapPut(map, k, v) == [x \in (DOMAIN map) \cup {k} |-> IF x = k THEN v ELSE map[x]]

\* the inner loop of collect over one table, from slot s on
RECURSIVE collectSlots_SkipNull(_, _, _)
collectSlots_SkipNull(tb, s, map) ==
    IF s >= tb.capacity THEN map
    ELSE collectSlots_SkipNull(tb, s + 1,
            IF tb.keys[s] # 0 /\ tb.values[s] # NULL
            THEN MapPut(map, IdFor(tb.capacity, s), tb.values[s])
            ELSE map)
RECURSIVE collectSlots(_, _, _)
collectSlots(tb, s, map) ==
    IF s >= tb.capacity THEN map
    ELSE collectSlots(tb, s + 1,
            IF tb.keys[s] # 0
            THEN MapPut(map, IdFor(tb.capacity, s), tb.values[s])
            ELSE map)

\* the outer loop of collect, from table t towards the tail
collectTables_HeadOnly(t, map) ==
    IF t = NULL THEN map ELSE collectSlots(tables[t], 0, map)
RECURSIVE collectTables(_, _)
collectTables(t, map) ==
    IF t = NULL THEN map
    ELSE collectTables(tables[t].prev, collectSlots(tables[t], 0, map))

collect(map) == collectTables(current_table, map)

\* ------------------------------------------------------------------ chain
\* the addresses of the chain, head first
RECURSIVE chainFrom(_)
chainFrom(t) == IF t = NULL THEN <<>> ELSE <<t>> \o chainFrom(tables[t].prev)

Chain == chainFrom(current_table)

\* the table clear() stops at: the first one from the head with no prev
RECURSIVE originalTable(_)
originalTable(t) == IF tables[t].prev = NULL THEN t ELSE originalTable(tables[t].prev)

Idle == \A t \in Threads : pc[t] = "idle"

\* ------------------------------------------------------------------- Init
Init ==
    /\ \E ok \in {TRUE, FALSE} :
        IF ok
        THEN /\ tables = <<allocate(NULL, INITIAL_CAPACITY)>>
             /\ current_table = 1
        ELSE /\ tables = <<>>
             /\ current_table = NULL
    /\ arena = <<>>
    /\ pc = [t \in Threads |-> "idle"]
    /\ hash = [t \in Threads |-> 0]
    /\ table = [t \in Threads |-> NULL]
    /\ slot = [t \in Threads |-> 0]
    /\ step = [t \in Threads |-> 0]
    /\ trace = [t \in Threads |-> NULL]
    /\ fslot = [t \in Threads |-> 0]
    /\ fstep = [t \in Threads |-> 0]
    /\ visits = [t \in Threads |-> 0]
    /\ nalloc = [t \in Threads |-> 0]
    /\ ntab = [t \in Threads |-> 0]
    /\ novel = [t \in Threads |-> FALSE]
    /\ gfail = [t \in Threads |-> FALSE]
    /\ heldPrev = [t \in Threads |-> FALSE]
    /\ callno = [t \in Threads |-> 0]
    /\ overlap = [t \in Threads |-> FALSE]
    /\ hist = {}
    /\ clearedLen = 0
    /\ life = "live"

\* -------------------------------------------------------------------- put
\* put returns id: the call is recorded and the locals die
Return(t, id, claimed) ==
    /\ hist' = hist \cup {[hash |-> hash[t], n |-> callno[t], id |-> id,
                           table |-> table[t],
                           claimed |-> claimed,
                           trace |-> IF claimed THEN trace[t] ELSE NULL,
                           stored |-> nalloc[t], novel |-> novel[t],
                           gfail |-> gfail[t], heldPrev |-> heldPrev[t],
                           overlap |-> overlap[t]]}
    /\ pc' = [pc EXCEPT ![t] = "idle"]
    /\ hash' = [hash EXCEPT ![t] = 0]
    /\ table' = [table EXCEPT ![t] = NULL]
    /\ slot' = [slot EXCEPT ![t] = 0]
    /\ step' = [step EXCEPT ![t] = 0]
    /\ trace' = [trace EXCEPT ![t] = NULL]
    /\ fslot' = [fslot EXCEPT ![t] = 0]
    /\ fstep' = [fstep EXCEPT ![t] = 0]
    /\ visits' = [visits EXCEPT ![t] = 0]
    /\ nalloc' = [nalloc EXCEPT ![t] = 0]
    /\ ntab' = [ntab EXCEPT ![t] = 0]
    /\ novel' = [novel EXCEPT ![t] = FALSE]
    /\ gfail' = [gfail EXCEPT ![t] = FALSE]
    /\ heldPrev' = [heldPrev EXCEPT ![t] = FALSE]
    /\ callno' = [callno EXCEPT ![t] = 0]
    /\ overlap' = [overlap EXCEPT ![t] = FALSE]

\* the put calls made since the last clear: returned or running
Running == {t \in Threads : pc[t] # "idle"}
Puts == Cardinality(hist) + Cardinality(Running)
PutsOf(h) == Cardinality({r \in hist : r.hash = h})
                + Cardinality({t \in Running : hash[t] = h})

Overlaps == Cardinality({r \in hist : r.overlap})
                + Cardinality({t \in Running : overlap[t]})

\* the allocations that failed since the last clear: an arena allocation
\* that failed left a claimed slot with a NULL trace after storeCallTrace
Faults ==
    Cardinality({r \in hist : r.gfail})
    + Cardinality({r \in hist : r.claimed /\ r.stored = 1 /\ r.trace = NULL})
    + Cardinality({t \in Running : gfail[t]})
    + Cardinality({t \in Running : pc[t] = "publish" /\ nalloc[t] = 1 /\ trace[t] = NULL})

\* threads are interchangeable and an idle thread holds no state: of the
\* idle threads, the lowest makes the next call
NextCaller == CHOOSE t \in Threads \ Running : \A u \in Threads \ Running : t <= u

HashInSomeTable(h) ==
    \E i \in 1..Len(tables) : \E s \in DOMAIN tables[i].keys : tables[i].keys[s] = h

\* lines 187-193: hash computed, _current_table loaded, slot and step set.
\* When the constructor's allocation failed _current_table is NULL and
\* table->capacity() (line 191) reads through the null pointer: the process
\* is killed by SIGSEGV and the call never returns.
PutBegin(t, h) ==
    /\ life = "live"
    /\ pc[t] = "idle"
    /\ t = NextCaller
    /\ Puts < MaxPuts
    /\ Running # {} => Overlaps < MaxOverlaps
    /\ hash' = [hash EXCEPT ![t] = h]
    /\ IF current_table = NULL
       THEN /\ life' = "crashed"
            /\ pc' = [pc EXCEPT ![t] = "segv"]
            /\ UNCHANGED <<table, slot, step, novel, callno, overlap, clearedLen>>
       ELSE /\ overlap' = [overlap EXCEPT ![t] = (Running # {})]
            /\ callno' = [callno EXCEPT ![t] = PutsOf(h) + 1]
            /\ clearedLen' = 0
            /\ table' = [table EXCEPT ![t] = current_table]
            /\ slot' = [slot EXCEPT ![t] = FirstSlot(h, tables[current_table].capacity)]
            /\ step' = [step EXCEPT ![t] = 0]
            /\ novel' = [novel EXCEPT ![t] = ~HashInSomeTable(h)]
            /\ pc' = [pc EXCEPT ![t] = "while"]
            /\ UNCHANGED life
    /\ UNCHANGED <<store, trace, fslot, fstep, visits, nalloc, ntab, gfail, heldPrev, hist>>

\* line 195: while (keys[slot] != hash); when it fails, line 226 returns the ID
WhileCond(t) ==
    /\ pc[t] = "while"
    /\ IF tables[table[t]].keys[slot[t]] # hash[t]
       THEN /\ pc' = [pc EXCEPT ![t] = "if"]
            /\ visits' = [visits EXCEPT ![t] = @ + 1]
            /\ UNCHANGED <<locals, nalloc, ntab, novel, gfail, heldPrev, callno, overlap, hist>>
       ELSE Return(t, IdFor(tables[table[t]].capacity, slot[t]), FALSE)
    /\ UNCHANGED <<store, clearedLen, life>>

\* line 196: if (keys[slot] == 0), a second read of the slot; when it is not
\* empty, lines 218-223: ++step, overflow return or the next slot
IfEmpty(t) ==
    /\ pc[t] = "if"
    /\ IF tables[table[t]].keys[slot[t]] = 0
       THEN /\ pc' = [pc EXCEPT ![t] = "cas"]
            /\ UNCHANGED <<locals, visits, nalloc, ntab, novel, gfail, heldPrev, callno, overlap, hist>>
       ELSE IF Overflow(step[t] + 1, tables[table[t]].capacity)
            THEN Return(t, 0, FALSE)
            ELSE /\ step' = [step EXCEPT ![t] = @ + 1]
                 /\ slot' = [slot EXCEPT ![t] =
                        NextSlot(slot[t], step[t] + 1, tables[table[t]].capacity)]
                 /\ visits' = [visits EXCEPT ![t] = 0]
                 /\ pc' = [pc EXCEPT ![t] = "while"]
                 /\ UNCHANGED <<hash, table, trace, fslot, fstep, nalloc, ntab, novel,
                                gfail, heldPrev, callno, overlap, hist>>
    /\ UNCHANGED <<store, clearedLen, life>>

\* the table findCallTrace is called on: table->prev()
Prev(t) == tables[tables[table[t]].prev]

\* the previous table of thread t's table holds t's hash in a slot whose
\* value is not NULL
HeldByPrev(t) ==
    /\ tables[table[t]].prev # NULL
    /\ \E s \in DOMAIN Prev(t).keys :
            Prev(t).keys[s] = hash[t] /\ Prev(t).values[s] # NULL

\* lines 197-199: __sync_bool_compare_and_swap(&keys[slot], 0, hash); when it
\* fails, `continue` re-evaluates the while condition
KeyCAS_Blind(t) ==
    /\ pc[t] = "cas"
    /\ tables' = [tables EXCEPT ![table[t]].keys[slot[t]] = hash[t]]
    /\ heldPrev' = [heldPrev EXCEPT ![t] = HeldByPrev(t)]
    /\ pc' = [pc EXCEPT ![t] = "inc"]
    /\ UNCHANGED <<current_table, arena, locals, visits, nalloc, ntab, novel, gfail,
                   callno, overlap, hist, clearedLen, life>>
KeyCAS(t) ==
    /\ pc[t] = "cas"
    /\ IF tables[table[t]].keys[slot[t]] = 0
       THEN /\ tables' = [tables EXCEPT ![table[t]].keys[slot[t]] = hash[t]]
            /\ heldPrev' = [heldPrev EXCEPT ![t] = HeldByPrev(t)]
            /\ pc' = [pc EXCEPT ![t] = "inc"]
       ELSE /\ pc' = [pc EXCEPT ![t] = "while"]
            /\ UNCHANGED <<tables, heldPrev>>
    /\ UNCHANGED <<current_table, arena, locals, visits, nalloc, ntab, novel, gfail,
                   callno, overlap, hist, clearedLen, life>>

\* line 202: table->incSize() == capacity * 3 / 4
IncSize(t) ==
    /\ pc[t] = "inc"
    /\ tables' = [tables EXCEPT ![table[t]].size = @ + 1]
    /\ pc' = [pc EXCEPT ![t] =
            IF AtThreshold(tables[table[t]].size + 1, tables[table[t]].capacity)
            THEN "grow" ELSE "migrate"]
    /\ UNCHANGED <<current_table, arena, locals, visits, nalloc, ntab, novel, gfail,
                   heldPrev, callno, overlap, hist, clearedLen, life>>

\* the outcomes of OS::safeAlloc in LongHashTable::allocate: TRUE is success
safeAllocOutcomes ==
    (IF Len(tables) < MaxTables THEN {TRUE} ELSE {})
    \cup (IF Faults < MaxFaults \/ Len(tables) >= MaxTables THEN {FALSE} ELSE {})

\* the outcomes of _allocator.alloc in storeCallTrace: TRUE is success
arenaAllocOutcomes == IF Faults < MaxFaults THEN {TRUE, FALSE} ELSE {TRUE}

\* lines 203-206: allocate the successor and CAS it into _current_table
Grow(t) ==
    /\ pc[t] = "grow"
    /\ \E ok \in safeAllocOutcomes :
        IF ok
        THEN /\ tables' = Append(tables,
                    allocate(table[t], tables[table[t]].capacity * 2))
             /\ current_table' =
                    IF current_table = table[t] THEN Len(tables) + 1 ELSE current_table
             /\ UNCHANGED gfail
        ELSE /\ gfail' = [gfail EXCEPT ![t] = TRUE]
             /\ UNCHANGED <<tables, current_table>>
    /\ ntab' = [ntab EXCEPT ![t] = @ + 1]
    /\ pc' = [pc EXCEPT ![t] = "migrate"]
    /\ UNCHANGED <<arena, locals, visits, nalloc, novel, heldPrev, callno, overlap, hist,
                   clearedLen, life>>

\* what the steps of findCallTrace leave alone
migrateFrame == <<tables, current_table, arena, hash, table, slot, step, visits,
                  nalloc, ntab, novel, gfail, heldPrev, callno, overlap, hist,
                  clearedLen, life>>

\* line 210: table->prev() == NULL ? NULL : findCallTrace(table->prev(), hash),
\* up to the locals of findCallTrace (lines 168-171); prev and capacity are
\* written once, before the table is shared
Migrate(t) ==
    /\ pc[t] = "migrate"
    /\ IF tables[table[t]].prev = NULL
       THEN /\ pc' = [pc EXCEPT ![t] = "store"]
            /\ UNCHANGED <<fslot, fstep>>
       ELSE /\ fslot' = [fslot EXCEPT ![t] = FirstSlot(hash[t], Prev(t).capacity)]
            /\ fstep' = [fstep EXCEPT ![t] = 0]
            /\ pc' = [pc EXCEPT ![t] = "fwhile"]
    /\ UNCHANGED <<migrateFrame, trace>>

\* line 173: while (keys[slot] != hash) in findCallTrace
FindWhile(t) ==
    /\ pc[t] = "fwhile"
    /\ pc' = [pc EXCEPT ![t] =
            IF Prev(t).keys[fslot[t]] # hash[t] THEN "fif" ELSE "fvalue"]
    /\ UNCHANGED <<migrateFrame, trace, fslot, fstep>>

\* line 174: if (keys[slot] == 0) return NULL, a second read of the slot;
\* lines 177-180: ++step, return NULL on overflow or the next slot.  A NULL
\* result sends put to storeCallTrace (line 211)
FindIf(t) ==
    /\ pc[t] = "fif"
    /\ IF Prev(t).keys[fslot[t]] = 0 \/ Overflow(fstep[t] + 1, Prev(t).capacity)
       THEN /\ fslot' = [fslot EXCEPT ![t] = 0]
            /\ fstep' = [fstep EXCEPT ![t] = 0]
            /\ pc' = [pc EXCEPT ![t] = "store"]
       ELSE /\ fstep' = [fstep EXCEPT ![t] = @ + 1]
            /\ fslot' = [fslot EXCEPT ![t] =
                    NextSlot(fslot[t], fstep[t] + 1, Prev(t).capacity)]
            /\ pc' = [pc EXCEPT ![t] = "fwhile"]
    /\ UNCHANGED <<migrateFrame, trace>>

\* line 183: return table->values()[slot]; line 211: if (trace == NULL)
FindValue(t) ==
    /\ pc[t] = "fvalue"
    /\ trace' = [trace EXCEPT ![t] = Prev(t).values[fslot[t]]]
    /\ pc' = [pc EXCEPT ![t] =
            IF Prev(t).values[fslot[t]] = NULL THEN "store" ELSE "publish"]
    /\ fslot' = [fslot EXCEPT ![t] = 0]
    /\ fstep' = [fstep EXCEPT ![t] = 0]
    /\ UNCHANGED migrateFrame

\* line 212: storeCallTrace; its arena allocation succeeds (a new CallTrace)
\* or returns NULL
Store(t) ==
    /\ pc[t] = "store"
    /\ nalloc' = [nalloc EXCEPT ![t] = @ + 1]
    /\ \E ok \in arenaAllocOutcomes :
        IF ok
        THEN /\ arena' = Append(arena, hash[t])
             /\ trace' = [trace EXCEPT ![t] = Len(arena) + 1]
        ELSE /\ trace' = [trace EXCEPT ![t] = NULL]
             /\ UNCHANGED arena
    /\ pc' = [pc EXCEPT ![t] = "publish"]
    /\ UNCHANGED <<tables, current_table, hash, table, slot, step, fslot, fstep,
                   visits, ntab, novel, gfail, heldPrev, callno, overlap, hist, clearedLen, life>>

\* lines 214-215 and 226: values[slot] = trace; break; return the ID
Publish(t) ==
    /\ pc[t] = "publish"
    /\ tables' = [tables EXCEPT ![table[t]].values[slot[t]] = trace[t]]
    /\ Return(t, IdFor(tables[table[t]].capacity, slot[t]), TRUE)
    /\ UNCHANGED <<current_table, arena, clearedLen, life>>

\* ------------------------------------------------------------------ clear
\* CallTraceStorage::clear, called when no put is running: every table but
\* the original is destroyed, the original is zeroed, the arena is released.
\* When the constructor's allocation failed _current_table->prev() (line 101)
\* reads through the null pointer and the process is killed by SIGSEGV.
Clear ==
    /\ life = "live"
    /\ Idle
    /\ IF current_table = NULL
       THEN /\ life' = "crashed"
            /\ UNCHANGED <<tables, current_table, arena, hist, clearedLen>>
       ELSE /\ tables' = <<clearTable(tables[originalTable(current_table)])>>
            /\ current_table' = 1
            /\ arena' = <<>>
            /\ hist' = {}
            /\ clearedLen' = Len(Chain)
            /\ UNCHANGED life
    /\ UNCHANGED <<pc, locals, visits, nalloc, ntab, novel, gfail, heldPrev, callno, overlap>>

\* ---------------------------------------------------------------- destroy
\* CallTraceStorage::~CallTraceStorage, called when no put is running: every
\* table of the chain is destroyed, the original included, _current_table
\* ends NULL and the arena goes with the object; the store's lifetime is over
Destroy ==
    /\ life = "live"
    /\ Idle
    /\ tables' = <<>>
    /\ current_table' = NULL
    /\ arena' = <<>>
    /\ hist' = {}
    /\ clearedLen' = 0
    /\ life' = "destroyed"
    /\ UNCHANGED <<pc, locals, visits, nalloc, ntab, novel, gfail, heldPrev, callno, overlap>>

\* ------------------------------------------------------------------- Next
PutStep(t) ==
    \/ \E h \in Hashes : PutBegin(t, h)
    \/ WhileCond(t)
    \/ IfEmpty(t)
    \/ KeyCAS(t)
    \/ IncSize(t)
    \/ Grow(t)
    \/ Migrate(t)
    \/ FindWhile(t)
    \/ FindIf(t)
    \/ FindValue(t)
    \/ Store(t)
    \/ Publish(t)

Next ==
    \/ \E t \in Threads : PutStep(t)
    \/ Clear
    \/ Destroy

Spec == Init /\ [][Next]_vars

\* ================================================================= claims
\* what collect leaves in an empty map
Collected == collect(EmptyMap)

Slots(i) == DOMAIN tables[i].keys

\* table i has no empty slot
Full(i) == \A s \in Slots(i) : tables[i].keys[s] # 0

\* the IDs of table i
IdsOfTable(i) == {IdFor(tables[i].capacity, s) : s \in Slots(i)}

\* ---------------------------------------------------------------------
\* C1 (as claimed): for a fixed trace, here one with a non-zero hash, every
\* put of it between two clears returns the same non-zero ID, also when the
\* chain grows between the calls.
C1_SameIdForSameTrace ==
    \A r1 \in hist : \A r2 \in hist :
        (r1.hash # 0 /\ r1.hash = r2.hash) => (r1.id # 0 /\ r1.id = r2.id)

\* ---------------------------------------------------------------------
\* C2 (as claimed): of the puts of one trace that all began while its hash
\* was in no table, all return the same ID, at most one has executed
\* storeCallTrace, and once they have all returned exactly one has.
NovelReturned(h) == {r \in hist : r.hash = h /\ r.novel}
NovelRunning(h) == {t \in Running : hash[t] = h /\ novel[t]}
NovelStores(h) == Cardinality({r \in NovelReturned(h) : r.stored = 1})
                    + Cardinality({t \in NovelRunning(h) : nalloc[t] = 1})

C2_OneAllocationOneId ==
    \A h \in Hashes \ {0} :
        /\ \A r1 \in NovelReturned(h) : \A r2 \in NovelReturned(h) : r1.id = r2.id
        /\ NovelStores(h) <= 1
        /\ (NovelRunning(h) = {} /\ NovelReturned(h) # {}) => NovelStores(h) = 1

\* ---------------------------------------------------------------------
\* C3 (as claimed): two puts of traces with different hashes that both
\* return a non-zero ID return different IDs.
C3_DistinctHashesDistinctIds ==
    \A r1 \in hist : \A r2 \in hist :
        (r1.hash # r2.hash /\ r1.id # 0 /\ r2.id # 0) => r1.id # r2.id

\* C3 (amended): two puts of traces with different non-zero hashes that both
\* return a non-zero ID return different IDs; every non-zero ID lies in the
\* range of the table the put loaded, and the ranges of the tables are
\* disjoint and do not contain 0.
C3_DistinctNonZeroHashesDistinctIds ==
    /\ \A r1 \in hist : \A r2 \in hist :
            (r1.hash # 0 /\ r2.hash # 0 /\ r1.hash # r2.hash /\ r1.id # 0 /\ r2.id # 0)
                => r1.id # r2.id
    /\ \A r \in hist : r.id # 0 => r.id \in IdsOfTable(r.table)
    /\ \A i \in 1..Len(tables) : \A j \in 1..Len(tables) :
            /\ 0 \notin IdsOfTable(i)
            /\ i # j => IdsOfTable(i) \cap IdsOfTable(j) = {}

\* two traces with different non-zero hashes got IDs from different tables
C3_Witness ==
    \E r1 \in hist : \E r2 \in hist :
        /\ r1.hash # 0 /\ r2.hash # 0 /\ r1.hash # r2.hash
        /\ r1.id # 0 /\ r2.id # 0
        /\ r1.table # r2.table

\* ---------------------------------------------------------------------
\* C4 (as claimed): when N puts with pairwise distinct hashes have returned
\* non-zero IDs and no put is running, collect on an empty map emits exactly
\* N entries, keyed by the IDs returned.
EachHashPutOnce == \A h \in Hashes : PutsOf(h) <= 1

C4_Coverage ==
    (Idle /\ EachHashPutOnce /\ \A r \in hist : r.id # 0)
        => /\ DOMAIN Collected = {r.id : r \in hist}
           /\ Cardinality(DOMAIN Collected) = Cardinality(hist)

\* C4 (amended): the same, for puts of traces whose hashes are not 0.
C4_CoverageNonZeroHashes ==
    (Idle /\ EachHashPutOnce /\ \A r \in hist : (r.id # 0 /\ r.hash # 0))
        => /\ DOMAIN Collected = {r.id : r \in hist}
           /\ Cardinality(DOMAIN Collected) = Cardinality(hist)

\* three traces put once each, into a chain that has grown
C4_Witness ==
    /\ Idle /\ EachHashPutOnce
    /\ \A r \in hist : (r.id # 0 /\ r.hash # 0)
    /\ Cardinality(hist) >= 3
    /\ Len(Chain) >= 2
    /\ Cardinality(DOMAIN Collected) = 3

\* ---------------------------------------------------------------------
\* C5: the capacity of current_table does not decrease in a step of put; a
\* store with no table has none after the step either
CapacityMonotone ==
    (\E t \in Threads : PutStep(t))
        => IF current_table = NULL
           THEN current_table' = NULL
           ELSE /\ current_table' # NULL
                /\ tables'[current_table'].capacity >= tables[current_table].capacity

\* the ID of record r is a key of collect, with the trace published by the
\* put that claimed the slot
Emitted(r) ==
    /\ r.id \in DOMAIN Collected
    /\ \E c \in hist : c.claimed /\ c.id = r.id /\ Collected[r.id] = c.trace

\* C5 (as claimed), second half: with no put running, every non-zero ID that
\* a put returned from a table that is no longer current_table is a key
\* emitted by collect, with the value published for that slot.
C5_SupersededIdsEmitted ==
    Idle => \A r \in hist : (r.id # 0 /\ r.table # current_table) => Emitted(r)

\* C5 (amended): the capacity of current_table never decreases in a step of
\* put, and with no put running every non-zero ID that a put of a trace with
\* a non-zero hash returned from a table that is no longer current_table is
\* a key emitted by collect, with the value published for that slot.
C5_GrowthMonotone ==
    /\ [][CapacityMonotone]_vars
    /\ [](Idle => \A r \in hist :
            (r.hash # 0 /\ r.id # 0 /\ r.table # current_table) => Emitted(r))

\* the chain has grown twice and an ID of the first table is still emitted
C5_Witness ==
    /\ Idle
    /\ Len(Chain) >= 3
    /\ \E r \in hist : /\ r.hash # 0 /\ r.id # 0 /\ r.table = 1
                       /\ r.claimed /\ r.trace # NULL
                       /\ Collected[r.id] = r.trace

\* ---------------------------------------------------------------------
\* the store right after clear: one table of INITIAL_CAPACITY slots, no
\* prev, size 0, every key and value empty; collect emits nothing
Cleared ==
    /\ Len(tables) = 1 /\ current_table = 1
    /\ tables[1].prev = NULL
    /\ tables[1].capacity = INITIAL_CAPACITY
    /\ tables[1].size = 0
    /\ DOMAIN tables[1].keys = 0..(INITIAL_CAPACITY - 1)
    /\ DOMAIN tables[1].values = 0..(INITIAL_CAPACITY - 1)
    /\ \A s \in 0..(INITIAL_CAPACITY - 1) :
            tables[1].keys[s] = 0 /\ tables[1].values[s] = NULL
    /\ Collected = EmptyMap

\* C6 (as claimed): clear, run with no put in progress, leaves the store
\* Cleared from every reachable state; and with no put running every entry
\* collect emits was inserted by a put made after the last clear.
C6_ClearSemantics ==
    /\ [][Clear => Cleared']_vars
    /\ [](Idle => \A k \in DOMAIN Collected :
            \E c \in hist : c.claimed /\ c.id = k /\ Collected[k] = c.trace)

\* ---------------------------------------------------------------------
\* put call c claimed a slot for a hash that was in no table, and its
\* storeCallTrace returned NULL
FirstInsertFailed(c) == c.novel /\ c.claimed /\ c.stored = 1 /\ c.trace = NULL

\* put call r of the same trace began after put call c had returned
After(c, r) == r.hash = c.hash /\ r.n > c.n /\ ~r.overlap

\* C7 (as claimed): when the arena allocation fails in the put that first
\* inserts a trace, that put returns a non-zero ID; every later put of the
\* trace returns the same ID; and with no put running no slot holding the
\* trace's hash has a value, and collect maps the ID to NULL.
C7_FailedAllocationNotRepaired ==
    \A c \in hist : FirstInsertFailed(c) =>
        /\ c.id # 0
        /\ \A r \in hist : After(c, r) => r.id = c.id
        /\ Idle =>
            /\ c.id \in DOMAIN Collected /\ Collected[c.id] = NULL
            /\ \A i \in 1..Len(tables) : \A s \in Slots(i) :
                    tables[i].keys[s] = c.hash => tables[i].values[s] = NULL

\* ---------------------------------------------------------------------
\* C8 (as claimed): a put returns 0 only if every slot of the table it
\* loaded holds a non-zero key different from its hash (keys never change
\* once set, so this is what the put must have seen), and it claimed nothing.
C8_ZeroOnlyWhenNoSlot ==
    \A r \in hist : r.id = 0 =>
        /\ ~r.claimed
        /\ \A s \in Slots(r.table) :
                tables[r.table].keys[s] # 0 /\ tables[r.table].keys[s] # r.hash

\* ---------------------------------------------------------------------
\* the tables whose successor could not be allocated
GrowFailed == {r.table : r \in {x \in hist : x.gfail}}
                \cup {table[t] : t \in {u \in Running : gfail[u]}}

\* the slot of table i that ID id names
SlotOfId(i, id) == id - IdFor(tables[i].capacity, 0)

\* C9: the put whose table allocation failed has published its value and
\* returned a non-zero ID; the table whose growth failed stays current_table
\* and gets no successor, so later puts load it and insert into it; a put
\* returns 0 only from a table with no empty slot left.
C9_GrowFailureNonFatal ==
    /\ \A r \in hist : r.gfail =>
            /\ r.claimed /\ r.id # 0
            /\ tables[r.table].values[SlotOfId(r.table, r.id)] = r.trace
    /\ \A g \in GrowFailed :
            /\ current_table = g
            /\ \A i \in 1..Len(tables) : tables[i].prev # g
    /\ \A r \in hist : r.id = 0 => Full(r.table)

\* after a failed growth of the first table a later put inserted into that
\* table and, once it was full, another put returned 0
C9_Witness ==
    \E g \in hist : \E l \in hist : \E z \in hist :
        /\ g.gfail /\ g.table = 1
        /\ l.table = 1 /\ l.claimed /\ ~l.gfail /\ l.id # 0
        /\ z.table = 1 /\ z.id = 0
        /\ current_table = 1 /\ Len(tables) = 1

\* ---------------------------------------------------------------------
\* the capacity of the table findCallTrace probes, 0 when there is none
PrevCapacity(t) ==
    IF tables[table[t]].prev = NULL THEN 0 ELSE Prev(t).capacity

\* an upper bound on the steps put has left: it counts the probes left, at
\* the current slot the evaluations of the loop left, and the probes
\* findCallTrace has left in the previous table
Rank(t) ==
    CASE pc[t] = "idle" -> 0
      [] pc[t] = "segv" -> 0
      [] pc[t] = "publish" -> 1
      [] pc[t] = "store" -> 2
      [] pc[t] = "fvalue" -> 3
      [] pc[t] = "fif" -> 4 + 2 * (PrevCapacity(t) - 1 - fstep[t])
      [] pc[t] = "fwhile" -> 5 + 2 * (PrevCapacity(t) - 1 - fstep[t])
      [] pc[t] = "migrate" -> 4 + 2 * PrevCapacity(t)
      [] pc[t] = "grow" -> 5 + 2 * PrevCapacity(t)
      [] pc[t] = "inc" -> 6 + 2 * PrevCapacity(t)
      [] pc[t] = "while" ->
            7 + 2 * PrevCapacity(t)
              + 5 * (tables[table[t]].capacity - 1 - step[t]) + 5 - 3 * visits[t]
      [] pc[t] = "if" ->
            7 + 2 * PrevCapacity(t)
              + 5 * (tables[table[t]].capacity - 1 - step[t]) + 7 - 3 * visits[t]
      [] pc[t] = "cas" ->
            7 + 2 * PrevCapacity(t)
              + 5 * (tables[table[t]].capacity - 1 - step[t]) + 6 - 3 * visits[t]

\* the puts ended by the fault of their load of a NULL current_table
Killed == {t \in Threads : pc[t] = "segv"}

\* thread t takes a step of put and is still inside put
Stepped(t) ==
    /\ pc[t] # "idle" /\ pc'[t] # "idle"
    /\ <<pc[t], slot[t], step[t], visits[t], fslot[t], fstep[t]>>
            # <<pc'[t], slot'[t], step'[t], visits'[t], fslot'[t], fstep'[t]>>

\* C10: inside put a thread has advanced its probe at most capacity - 1
\* times, has evaluated the loop condition at most twice at the current slot
\* (once more after a failed CAS), has advanced findCallTrace's probe at most
\* (capacity of the previous table) - 1 times, has called storeCallTrace and
\* LongHashTable::allocate at most once each, can always take a step, and
\* every step it takes lowers Rank: put ends after at most
\* 6 * capacity + 7 steps of its own, whatever the other threads do. A put
\* on a store that has no table ends at its first step, by the fault, with
\* no probe and no allocation made, and no other put is then in progress.
C10_PutBounded ==
    /\ [][\A t \in Threads : Stepped(t) => Rank(t)' < Rank(t)]_vars
    /\ [](\A t \in Killed :
            /\ step[t] = 0 /\ visits[t] = 0
            /\ nalloc[t] = 0 /\ ntab[t] = 0
            /\ Running = {t})
    /\ [](\A t \in Running \ Killed :
            /\ step[t] <= tables[table[t]].capacity - 1
            /\ visits[t] <= 2
            /\ pc[t] \in {"fwhile", "fif"} => fstep[t] <= PrevCapacity(t) - 1
            /\ Rank(t) <= 6 * tables[table[t]].capacity + 7
            /\ nalloc[t] <= 1 /\ ntab[t] <= 1
            /\ Rank(t) >= 1
            /\ ENABLED <<PutStep(t)>>_vars)

\* a key CAS has failed and the slot has been examined again and skipped;
\* the put is at its last probe
C10_Witness ==
    \E t \in Running :
        /\ pc[t] = "if" /\ visits[t] = 2
        /\ tables[table[t]].keys[slot[t]] # hash[t]
        /\ step[t] = tables[table[t]].capacity - 1

\* ---------------------------------------------------------------------
\* the slots of the tables, as <<table, slot>>, that hold key h
SlotsHolding(h) ==
    {p \in UNION {{<<i, s>> : s \in Slots(i)} : i \in 1..Len(tables)} :
        tables[p[1]].keys[p[2]] = h}

\* the slots that hold key h with a non-null value
ValuedSlots(h) == {p \in SlotsHolding(h) : tables[p[1]].values[p[2]] # NULL}

\* C11 (as claimed): with no put in progress, for every non-zero hash at most
\* one slot of the whole chain holds that hash as its key with a non-null
\* value, also after the hash was put again once the chain had grown.
C11_OneValuedSlotPerHash ==
    Idle => \A h \in Hashes \ {0} : Cardinality(ValuedSlots(h)) <= 1

\* ---------------------------------------------------------------------
\* thread u has claimed a key in table i and has not yet published the value
Writing(u, i) ==
    /\ table[u] = i
    /\ pc[u] \in {"inc", "grow", "migrate", "fwhile", "fif", "fvalue", "store", "publish"}

\* thread t is in findCallTrace on the previous table (line 210)
Inheriting(t) == pc[t] \in {"fwhile", "fif", "fvalue"}

\* C12 (as claimed): while a put runs findCallTrace on the previous
\* table, no other put is between claiming a key in that table and publishing
\* the slot's value.
C12_PredecessorQuiescent ==
    \A t \in Threads : Inheriting(t) =>
        \A u \in Threads \ {t} : ~Writing(u, tables[table[t]].prev)

\* ---------------------------------------------------------------------
\* the keys of collect's map that name a slot holding key h
EntriesOf(h) ==
    {k \in DOMAIN Collected :
        \E p \in SlotsHolding(h) : k = IdFor(tables[p[1]].capacity, p[2])}

\* hash h has a slot in two tables
InTwoTables(h) ==
    \E p \in SlotsHolding(h) : \E q \in SlotsHolding(h) : p[1] # q[1]

\* C13 (as claimed): when the same hash occupies a slot in two tables of the
\* chain, collect leaves a single entry for that hash.
C13_SingleEntryPerHash ==
    Idle => \A h \in Hashes \ {0} :
        InTwoTables(h) => Cardinality(EntriesOf(h)) = 1

\* the occupied slots of the chain
Occupied ==
    {p \in UNION {{<<Chain[n], s>> : s \in Slots(Chain[n])} : n \in 1..Len(Chain)} :
        tables[p[1]].keys[p[2]] # 0}

\* C13 (amended): collect leaves one entry per occupied slot of the chain,
\* under the slot's ID and with the slot's value; no entry overwrites
\* another, so a hash that occupies a slot in two tables has two entries.
C13_OneEntryPerSlot ==
    Idle =>
        /\ Cardinality(DOMAIN Collected) = Cardinality(Occupied)
        /\ \A p \in Occupied :
            /\ IdFor(tables[p[1]].capacity, p[2]) \in DOMAIN Collected
            /\ Collected[IdFor(tables[p[1]].capacity, p[2])] = tables[p[1]].values[p[2]]
        /\ \A h \in Hashes \ {0} :
            Cardinality(EntriesOf(h)) = Cardinality(SlotsHolding(h))

\* one hash occupies a slot in two tables, with different values
C13_Witness ==
    /\ Idle
    /\ \E h \in Hashes \ {0} :
        \E p \in SlotsHolding(h) : \E q \in SlotsHolding(h) :
            /\ p[1] # q[1]
            /\ tables[p[1]].values[p[2]] # tables[q[1]].values[q[2]]
            /\ Cardinality(EntriesOf(h)) = 2

\* ---------------------------------------------------------------------
\* the tables allocated as successors of table i
Successors(i) == {j \in 1..Len(tables) : tables[j].prev = i}

\* the puts that reached line 203 for table i since the last clear: the ones
\* whose allocation succeeded, the ones whose allocation failed and the ones
\* about to allocate
GrowAttempts(i) ==
    Cardinality(Successors(i))
    + Cardinality({r \in hist : r.gfail /\ r.table = i})
    + Cardinality({t \in Running : table[t] = i /\ (pc[t] = "grow" \/ gfail[t])})

\* a step that changes current_table, other than clear and the destructor,
\* installs a new table of twice the capacity whose prev is the old
\* current_table
SwungOnce ==
    (current_table' # current_table /\ ~(Clear \/ Destroy)) =>
        /\ Successors(current_table) = {}
        /\ current_table' \notin 1..Len(tables)
        /\ tables'[current_table'].prev = current_table
        /\ tables'[current_table'].capacity = 2 * tables[current_table].capacity

\* the put that allocates the successor does so from current_table and, when
\* no two puts have overlapped, right at the insertion that made size equal
\* to the threshold; it returns an ID of the table it inserted into
GrowsAtThreshold ==
    \A t \in Threads :
        /\ Grow(t) =>
            /\ table[t] = current_table
            /\ tables[table[t]].size >= Threshold(tables[table[t]].capacity)
            /\ Overlaps = 0 =>
                tables[table[t]].size = Threshold(tables[table[t]].capacity)
        /\ (Publish(t) /\ ntab[t] = 1) =>
            \E r \in hist' \ hist :
                /\ r.table = table[t] /\ r.claimed
                /\ r.id \in IdsOfTable(table[t])
                /\ ~r.gfail => current_table' # table[t]

\* C14: between clears at most one put attempts to allocate a successor of
\* any table, namely the one whose size increment returned the threshold;
\* current_table is swung away from a table at most once; in a run without
\* overlapping puts the growth happens at exactly that insertion, and the
\* put that grows returns an ID of the old table.
C14_OneGrowthPerTable ==
    /\ [][SwungOnce /\ GrowsAtThreshold]_vars
    /\ [](\A i \in 1..Len(tables) :
            /\ GrowAttempts(i) <= 1
            /\ GrowAttempts(i) = 1 <=>
                    tables[i].size >= Threshold(tables[i].capacity))

\* two growths, and insertions into the first table after its threshold by
\* overlapping puts without a second attempt
C14_Witness ==
    /\ Idle /\ Len(Chain) = 3
    /\ Overlaps >= 1
    /\ tables[1].size > Threshold(tables[1].capacity)
    /\ GrowAttempts(1) = 1

\* ---------------------------------------------------------------------
\* a key that changes in a step other than clear and the destructor was 0,
\* becomes the hash of the thread whose CAS the step is, and is the only key
\* that changes
KeysWriteOnce ==
    ~(Clear \/ Destroy) =>
        \A i \in 1..Len(tables) : \A s \in Slots(i) :
            tables'[i].keys[s] # tables[i].keys[s] =>
                /\ tables[i].keys[s] = 0
                /\ tables'[i].keys[s] # 0
                /\ \E t \in Threads :
                    /\ KeyCAS(t)
                    /\ table[t] = i /\ slot[t] = s
                    /\ tables'[i].keys[s] = hash[t]

\* a table allocated by a step starts with every key 0, and no step other
\* than clear and the destructor removes a table
TablesKept ==
    ~(Clear \/ Destroy) =>
        /\ Len(tables') >= Len(tables)
        /\ \A i \in (1..Len(tables')) \ (1..Len(tables)) :
            \A s \in DOMAIN tables'[i].keys : tables'[i].keys[s] = 0

\* C15: a key slot changes only from 0 to a non-zero hash, by a successful
\* CAS in put; no step of put overwrites a non-zero key or resets it to 0;
\* only clear, and the destructor with the tables themselves, removes keys.
C15_KeysWriteOnce == [][KeysWriteOnce /\ TablesKept]_vars

\* a thread is about to CAS a slot that another thread has claimed since the
\* first thread read it as empty: the CAS must leave the key alone
C15_Witness ==
    \E t \in Running :
        /\ pc[t] = "cas"
        /\ tables[table[t]].keys[slot[t]] \notin {0, hash[t]}

\* ---------------------------------------------------------------------
\* the non-null values published in table i under key h
ValuesOf(i, h) ==
    {tables[i].values[s] : s \in {x \in Slots(i) : tables[i].keys[x] = h}} \ {NULL}

\* C16 (as claimed): a put that claimed a slot in a table whose previous
\* table then held the put's hash with a published non-null value stores a
\* CallTrace published under that hash in the previous table and has not
\* called storeCallTrace; a put comes to storeCallTrace only when its table
\* has no previous table or findCallTrace on the previous table returned
\* NULL, whatever older tables hold.
InheritsPublished ==
    \A t \in Threads :
        /\ (Publish(t) /\ heldPrev[t]) =>
            /\ trace[t] \in ValuesOf(tables[table[t]].prev, hash[t])
            /\ nalloc[t] = 0
        /\ (pc[t] # "store" /\ pc'[t] = "store") =>
            \/ Migrate(t) /\ tables[table[t]].prev = NULL
            \/ FindIf(t)
            \/ FindValue(t) /\ Prev(t).values[fslot[t]] = NULL

C16_InheritsPublished == [][InheritsPublished]_vars

\* ---------------------------------------------------------------------
\* the k-th slot (k = 0, 1, ...) of the probe sequence of hash h in a table
\* of the given capacity: the home slot plus the k-th triangular number
ProbeSlot(h, capacity, k) == BitAnd(h + (k * (k + 1)) \div 2, capacity - 1)

\* thread t takes a step of a put whose hash is 0
ZeroHashStep(t) ==
    \/ PutBegin(t, 0)
    \/ pc[t] # "idle" /\ hash[t] = 0 /\ PutStep(t)

\* a put of hash 0 returns in this step: from the while condition with the
\* ID of the slot it read as empty, every slot probed before it being
\* occupied, or from the overflow test with 0, the table being full
ZeroHashReturn(t) ==
    (pc[t] # "idle" /\ hash[t] = 0 /\ PutStep(t) /\ pc'[t] = "idle") =>
        \E r \in hist' \ hist :
            /\ r.hash = 0 /\ ~r.claimed /\ r.table = table[t]
            /\ \A k \in 0..(step[t] - 1) :
                tables[table[t]].keys[ProbeSlot(0, tables[table[t]].capacity, k)] # 0
            /\ slot[t] = ProbeSlot(0, tables[table[t]].capacity, step[t])
            /\ IF tables[table[t]].keys[slot[t]] = 0
               THEN r.id = tables[table[t]].capacity - (INITIAL_CAPACITY - 1) + slot[t]
               ELSE r.id = 0 /\ Full(table[t])

\* C17 (as claimed): every put whose trace hashes to 0 stays at the probe
\* loop, where it can always take its next step, never reaches the key CAS
\* and changes no key, value, size, arena or current_table; it returns the
\* ID of the first empty slot on its probe sequence in the table it loaded,
\* or 0 when the probe found no empty slot.
C17_ZeroHashClaimsNothing ==
    /\ [][\A t \in Threads :
            /\ ZeroHashStep(t) => UNCHANGED store
            /\ ZeroHashReturn(t)]_vars
    /\ [](/\ \A t \in Running :
                hash[t] = 0 =>
                    pc[t] \in {"while", "if"} /\ ENABLED <<PutStep(t)>>_vars
          /\ \A r \in hist : r.hash = 0 =>
                /\ ~r.claimed /\ r.stored = 0
                /\ r.id = 0 => Full(r.table)
                /\ r.id # 0 => r.id \in IdsOfTable(r.table))

\* ---------------------------------------------------------------------
\* C18 (as claimed): two puts of the same non-zero hash that loaded the same
\* table return the same ID, and at most one of them won the key CAS (and so
\* incremented size and wrote the slot's value).
C18_SameTableSameId ==
    \A r1 \in hist : \A r2 \in hist :
        (r1 # r2 /\ r1.hash # 0 /\ r1.hash = r2.hash /\ r1.table = r2.table)
            => /\ r1.id = r2.id
               /\ ~(r1.claimed /\ r2.claimed)

\* ---------------------------------------------------------------------
\* the number of slots of table i with a non-zero key
NonZeroKeys(i) == Cardinality({s \in Slots(i) : tables[i].keys[s] # 0})

\* the puts that have claimed a key in table i and not yet incremented size
Uncounted(i) == Cardinality({t \in Running : table[t] = i /\ pc[t] = "inc"})

\* C19: the size of every table is at most the number of its slots with a
\* non-zero key and at most its capacity; the difference is the number of
\* puts between their key CAS and their size increment, so with no put in
\* progress size is exactly the number of slots with a non-zero key.
C19_SizeCountsKeys ==
    \A i \in 1..Len(tables) :
        /\ tables[i].size <= NonZeroKeys(i)
        /\ tables[i].size <= tables[i].capacity
        /\ tables[i].size + Uncounted(i) = NonZeroKeys(i)
        /\ Idle => tables[i].size = NonZeroKeys(i)

\* two puts have claimed keys in one table and only one has incremented size
C19_Witness ==
    \E i \in 1..Len(tables) :
        /\ tables[i].size >= 1
        /\ tables[i].size < NonZeroKeys(i)
        /\ NonZeroKeys(i) = tables[i].capacity

\* ---------------------------------------------------------------------
\* the step allocates a table
Allocates == Len(tables') > Len(tables)

\* a put that allocates a successor finds current_table still equal to the
\* table it loaded, and the CAS installs the new table
InstallsAllocated ==
    \A t \in Threads : (Grow(t) /\ Allocates) =>
        /\ current_table = table[t]
        /\ current_table' = Len(tables')
        /\ tables'[current_table'].prev = table[t]

\* C20: every table that put allocates is installed as current_table (the CAS
\* of current_table never fails), so every table allocated since the last
\* clear is on the chain from current_table.
C20_AllocatedIsInstalled ==
    /\ [][InstallsAllocated]_vars
    /\ [](/\ {Chain[n] : n \in 1..Len(Chain)} = 1..Len(tables)
          /\ Len(Chain) = Len(tables))

\* a put has just installed a successor while another put is still working
\* on the table that was superseded
C20_Witness ==
    \E t \in Running : \E u \in Running :
        /\ t # u /\ table[t] = table[u]
        /\ pc[t] = "migrate" /\ ntab[t] = 1 /\ ~gfail[t]
        /\ current_table # table[t]
        /\ tables[current_table].prev = table[t]
        /\ Len(Chain) = 3

====
